---- MODULE Spec2Model ----
(***************************************************************************)
(* Model of arch/arm/mach-msm/clock-debug.c: the debugfs front end of the  *)
(* MSM clock framework.  The clock driver callbacks (clk->ops->*,          *)
(* clk_set_rate, ...) and debugfs itself are external: their results are   *)
(* drawn nondeterministically and every call is recorded in last.calls.    *)
(***************************************************************************)
EXTENDS Integers, Sequences, FiniteSets, TLC

\* ------------------------------------------------------------------ bounds
NumClocks == 4        \* clocks known to the clock framework
MaxVal == 2           \* values written to a file are 0..MaxVal
MaxListLen == 2       \* length of the clock list handed to clock_debug_init
MaxRates == 2         \* list_rate is defined for the indices 0..MaxRates
MaxInitCalls == 2     \* calls of clock_debug_init
MaxBeyond == 0        \* non-NUL stack bytes that follow temp[]

\* ------------------------------------------------------- program constants
TempSize == 50        \* char temp[50]
ENOMEM == 12
NULL == <<>>           \* the null pointer
NUL == "NUL"          \* the string terminator '\0'

\* ------------------------------------------------------------- characters
Upper == <<"A","B","C","D","E","F","G","H","I","J","K","L","M",
           "N","O","P","Q","R","S","T","U","V","W","X","Y","Z">>
Lower == <<"a","b","c","d","e","f","g","h","i","j","k","l","m",
           "n","o","p","q","r","s","t","u","v","w","x","y","z">>

tolower(c) ==
    IF \E k \in 1..Len(Upper) : Upper[k] = c
    THEN Lower[CHOOSE k \in 1..Len(Upper) : Upper[k] = c]
    ELSE c

\* ------------------------------------------------------------- the clocks
ClockIds == 1..NumClocks

\* struct clk, field flags: the CLK_MIN / CLK_MAX bits of clock i
clk_flags(i) ==
    (IF i % 2 = 1 THEN {"CLK_MIN"} ELSE {}) \cup
    (IF (i \div 2) % 2 = 1 THEN {"CLK_MAX"} ELSE {})

\* struct clk, field ops: which optional callbacks the table implements
clk_ops(i) ==
    [measure_rate |-> ((i + 1) \div 2) % 2 = 1,
     list_rate    |-> i % 2 = 1]

\* struct clk, field dbg_name: mixed-case names of 3, 48, 49, 50, ... chars;
\* the long names differ behind their 49th character only
NameLen(i) == IF i = 1 THEN 3 ELSE TempSize - 4 + i

clk_dbg_name(i) ==
    [j \in 1..NameLen(i) |->
        IF j > TempSize - 1 THEN Upper[((i + j) % 26) + 1]
        ELSE IF j % 3 = 1 THEN Upper[(j % 26) + 1]
        ELSE IF j % 3 = 2 THEN "_"
        ELSE Lower[((2 * j) % 26) + 1]]

\* ------------------------------------------------------------------ state
VARIABLES
    fs,             \* the dentries that exist in debugfs
    debugfs_base,   \* static struct dentry *debugfs_base
    debug_suspend,  \* static u32 debug_suspend
    clocks_ptr,     \* static struct list_head *clocks_ptr
    ninit,          \* number of calls of clock_debug_init so far
    nadd,           \* number of calls of clock_debug_add so far
    init_ret,       \* <<r>> once clock_debug_init has returned r, else <<>>
    pc,             \* position of a running clock_debug_init
    oops,           \* the kernel has faulted
    last            \* the last operation: arguments, calls made, result

vars == <<fs, debugfs_base, debug_suspend, clocks_ptr, ninit, nadd, init_ret, pc,
          oops, last>>

\* file names
N_clk == "clk"
N_debug_suspend == "debug_suspend"
N_rate == "rate"
N_enable == "enable"
N_is_local == "is_local"
N_measure == "measure"
N_list_rates == "list_rates"

\* a pointer is NULL or <<target>>
Ptr(x) == <<x>>
Deref(p) == p[1]

\* debugfs is a set of top-level directories.  A top-level directory "clk" is
\* known by the call of clock_debug_init that created it (gen); it holds the
\* file debug_suspend or not and a set of clock directories.  alive is FALSE
\* for a removed directory that something has been linked to since.
RootDentry(gen) ==
    [name |-> N_clk, gen |-> gen, alive |-> TRUE, suspend |-> FALSE, dirs |-> {}]

FreedDentry(gen) == [RootDentry(gen) EXCEPT !.alive = FALSE]

\* a clock directory: its name, the clock its files carry as private data,
\* and the names of its files
ClkDir(name, c, files) == [name |-> name, data |-> c, files |-> files]

\* the dentry a root pointer refers to
Target(files, p) ==
    IF \E r \in files : r.gen = p THEN CHOOSE r \in files : r.gen = p
    ELSE FreedDentry(p)

\* debugfs with the top-level directory r as given
Put(files, r) ==
    {x \in files : x.gen # r.gen}
    \cup (IF r.alive \/ r.dirs # {} THEN {r} ELSE {})

\* debugfs_create_dir / debugfs_create_file / debugfs_create_u32 return NULL
\* when the allocation fails or the name already exists in the parent
CreateFails(allocOK, exists) == ~allocOK \/ exists

\* debugfs_remove_recursive(top) for a top-level directory: it goes away with
\* everything below it
debugfs_remove_recursive(files, p) == {x \in files : x.gen # p}

\* the record of the last operation
NoLast ==
    [op |-> "none", clk |-> 0, val |-> 0, ret |-> 0, returned |-> FALSE,
     calls |-> <<>>, out |-> <<>>, fs0 |-> {}, failed |-> 0,
     uaf |-> FALSE, uninit |-> FALSE, oob |-> FALSE, dname |-> <<>>,
     head |-> <<>>, tbl |-> [i \in 0..MaxRates |-> -1]]

\* the record of a call made to the clock framework
Call(fn, c, arg, ret) == [fn |-> fn, clk |-> c, arg |-> arg, ret |-> ret]

\* a line of output: of the kernel log or of a file being read
Line(t, name, n) == [t |-> t, name |-> name, n |-> n]

\* clock_debug_init is not running
Idle == [at |-> "idle", head |-> <<>>, failAt |-> 0]

Init ==
    /\ fs = {}
    /\ debugfs_base = NULL
    /\ debug_suspend = 0
    /\ clocks_ptr = NULL
    /\ ninit = 0
    /\ nadd = 0
    /\ init_ret = <<>>
    /\ pc = Idle
    /\ oops = FALSE
    /\ last = NoLast

Live == pc = Idle /\ ~oops

Done(op) == [NoLast EXCEPT !.op = op, !.returned = TRUE, !.fs0 = fs]

\* ------------------------------------------------------- clock_debug_init
\* the clock lists a caller can hand over: some of the first clocks, in any
\* order, none twice
ClockLists ==
    {l \in UNION {[1..n -> 1..MaxListLen] : n \in 0..MaxListLen} :
        \A i, j \in 1..Len(l) : l[i] = l[j] => i = j}

\* the list of all clocks of the framework
AllClocks == [i \in 1..NumClocks |-> i]

\* debugfs_base = debugfs_create_dir("clk", NULL)
InitCreateDir(files, gen, allocOK) ==
    IF CreateFails(allocOK, \E r \in files : r.alive /\ r.name = N_clk)
    THEN [base |-> NULL, fs |-> files]
    ELSE [base |-> Ptr(gen), fs |-> files \cup {RootDentry(gen)}]

\* InitCreateSuspend without the removal of the root directory
InitCreateSuspend_leak(files, base, allocOK) ==
    LET r == Target(files, Deref(base)) IN
    IF CreateFails(allocOK, r.suspend)
    THEN [ok |-> FALSE, fs |-> files]
    ELSE [ok |-> TRUE, fs |-> Put(files, [r EXCEPT !.suspend = TRUE])]

\* debugfs_create_u32("debug_suspend", ..., debugfs_base, &debug_suspend),
\* and debugfs_remove_recursive(debugfs_base) when it fails
InitCreateSuspend(files, base, allocOK) ==
    LET r == Target(files, Deref(base)) IN
    IF CreateFails(allocOK, r.suspend)
    THEN [ok |-> FALSE, fs |-> debugfs_remove_recursive(files, Deref(base))]
    ELSE [ok |-> TRUE, fs |-> Put(files, [r EXCEPT !.suspend = TRUE])]

\* the creation calls of clock_debug_init that can fail to allocate
InitFailPoints == 0..2

\* the whole call, run without interruption; creation call failAt fails
clock_debug_init(head, failAt) ==
    /\ Live
    /\ ninit < MaxInitCalls
    /\ ninit' = ninit + 1
    /\ LET r1 == InitCreateDir(fs, ninit + 1, failAt # 1)
           r2 == InitCreateSuspend(r1.fs, r1.base, failAt # 2)
           ret == IF r1.base = NULL \/ ~r2.ok THEN -ENOMEM ELSE 0
       IN  /\ debugfs_base' = r1.base
           /\ fs' = IF r1.base = NULL THEN r1.fs ELSE r2.fs
           /\ clocks_ptr' = IF ret = 0 THEN Ptr(head) ELSE clocks_ptr
           /\ init_ret' = <<ret>>
           /\ last' = [Done("init") EXCEPT !.head = head, !.ret = ret,
                          !.failed = IF r1.base = NULL THEN 1
                                     ELSE IF ~r2.ok THEN 2 ELSE 0]
    /\ UNCHANGED <<debug_suspend, nadd, pc, oops>>

\* the same call, one statement at a time: line 107
init_L107(head, failAt) ==
    /\ Live
    /\ ninit < MaxInitCalls
    /\ ninit' = ninit + 1
    /\ LET r1 == InitCreateDir(fs, ninit + 1, failAt # 1) IN
        /\ debugfs_base' = r1.base
        /\ fs' = r1.fs
        /\ IF r1.base = NULL
           THEN /\ pc' = Idle
                /\ init_ret' = <<-ENOMEM>>
                /\ last' = [Done("init") EXCEPT !.head = head,
                               !.ret = -ENOMEM, !.failed = 1]
           ELSE /\ pc' = [at |-> "L110", head |-> head, failAt |-> failAt]
                /\ init_ret' = <<>>
                /\ last' = [Done("init") EXCEPT !.head = head,
                               !.returned = FALSE]
    /\ UNCHANGED <<debug_suspend, clocks_ptr, nadd, oops>>

\* lines 110 to 114
init_L110 ==
    /\ ~oops
    /\ pc.at = "L110"
    /\ LET r2 == InitCreateSuspend(fs, debugfs_base, pc.failAt # 2) IN
        /\ fs' = r2.fs
        /\ IF r2.ok
           THEN /\ pc' = [pc EXCEPT !.at = "L115"]
                /\ UNCHANGED <<init_ret, last>>
           ELSE /\ pc' = Idle
                /\ init_ret' = <<-ENOMEM>>
                /\ last' = [Done("init") EXCEPT !.head = pc.head,
                               !.ret = -ENOMEM, !.failed = 2]
    /\ UNCHANGED <<debugfs_base, debug_suspend, clocks_ptr, ninit, nadd, oops>>

\* lines 115 and 116
init_L115 ==
    /\ ~oops
    /\ pc.at = "L115"
    /\ clocks_ptr' = Ptr(pc.head)
    /\ pc' = Idle
    /\ init_ret' = <<0>>
    /\ last' = [Done("init") EXCEPT !.head = pc.head]
    /\ UNCHANGED <<fs, debugfs_base, debug_suspend, ninit, nadd, oops>>

\* -------------------------------------------------------- clock_debug_add
\* what the uninitialised temp[49] and the stack behind it may hold: a run
\* of non-zero bytes, then a zero byte
Garbage == UNION {[1..n -> {"Q"}] : n \in 0..(MaxBeyond + 1)}

\* a stack of zero bytes
NoGarbage == <<>>

\* the number of bytes strncpy is asked to write into temp[]
CopyLen == TempSize - 1

\* char temp[50] on the stack, followed by whatever lies behind it; the
\* bytes temp[0..48] are written by strncpy before anything reads them
Stack(g) == [j \in 1..CopyLen |-> "Q"] \o g \o <<NUL>>

\* strncpy(dest, src, n): n bytes are written, NUL-padded after the end of src
strncpy(dest, src, n) ==
    [j \in 1..Len(dest) |->
        IF j > n THEN dest[j]
        ELSE IF j <= Len(src) THEN src[j]
        ELSE NUL]

\* for (ptr = temp; *ptr; ptr++) *ptr = tolower(*ptr);
RECURSIVE LowerLoop(_, _)
LowerLoop(mem, ptr) ==
    IF mem[ptr] = NUL THEN [mem |-> mem, end |-> ptr]
    ELSE LowerLoop([mem EXCEPT ![ptr] = tolower(mem[ptr])], ptr + 1)

\* the directory name computed in temp[], and how it was computed: whether a
\* byte of temp[] was read that nothing had written, and whether a byte
\* behind temp[] was touched
DirName(c, g) ==
    LET r == CHOOSE x \in {LowerLoop(strncpy(Stack(g), clk_dbg_name(c),
                                             CopyLen), 1)} : TRUE
    IN  [dname  |-> SubSeq(r.mem, 1, r.end - 1),
         uninit |-> \E k \in 1..r.end : k <= TempSize /\ k > CopyLen,
         oob    |-> r.end > TempSize]

\* the same, tabulated
DirNames ==
    {[c |-> c, g |-> g, nm |-> DirName(c, g)] : c \in ClockIds, g \in Garbage}

\* ClockFiles without the test of measure_rate
ClockFiles_measure(c) ==
    <<N_rate, N_enable, N_is_local, N_measure>>
    \o (IF clk_ops(c).list_rate THEN <<N_list_rates>> ELSE <<>>)

\* the files of a clock directory, in the order of their creation
ClockFiles(c) ==
    <<N_rate, N_enable, N_is_local>>
    \o (IF clk_ops(c).measure_rate THEN <<N_measure>> ELSE <<>>)
    \o (IF clk_ops(c).list_rate THEN <<N_list_rates>> ELSE <<>>)

\* the debugfs_create_file calls in the new directory; call number failAt
\* fails to allocate.  made are the files created so far, k numbers the call
RECURSIVE CreateFiles(_, _, _, _)
CreateFiles(names, k, failAt, made) ==
    IF names = <<>> THEN [failed |-> 0, files |-> made]
    ELSE IF CreateFails(failAt # k, Head(names) \in made)
         THEN [failed |-> k, files |-> made]
         ELSE CreateFiles(Tail(names), k + 1, failAt, made \cup {Head(names)})

\* the creation calls of clock_debug_add that can fail to allocate
FailPoints(c) == 0..(1 + Len(ClockFiles(c)))

\* debugfs with the clock directory dir linked below the directory p
Link(files, p, dir) ==
    Put(files, [Target(files, p) EXCEPT !.dirs = @ \cup {dir}])

\* AddCleanup without the removal
AddCleanup_none(files, p, dir) == files

\* lines 204 to 206: debugfs_remove_recursive(clk_dir), the clock directory
\* goes away with its files
AddCleanup(files, p, dir) ==
    Put(files, [Target(files, p) EXCEPT !.dirs = @ \ {dir}])

\* a freed debugfs_base handed to debugfs_create_dir: the call faults, fails,
\* or links the new directory to the freed dentry
StaleOutcomes == {"oops", "null", "linked"}

\* the clock directories
ClockDirs == UNION {r.dirs : r \in fs}

\* the framework hands over its clocks one after the other, each once
clock_debug_add(c, failAt, g) ==
    /\ Live
    /\ c = nadd + 1
    /\ nadd' = c
    /\ IF debugfs_base = NULL
       THEN /\ last' = [Done("add") EXCEPT !.clk = c, !.ret = -ENOMEM]
            /\ UNCHANGED <<fs, oops>>
       ELSE
        \E nm \in {t.nm : t \in {x \in DirNames : x.c = c /\ x.g = g}} :
        \E parent \in {Target(fs, Deref(debugfs_base))} :
        \E u \in IF parent.alive THEN {"linked"} ELSE StaleOutcomes :
        LET nodir == \/ CreateFails(failAt # 1,
                                    \E d \in parent.dirs : d.name = nm.dname)
                     \/ u = "null"
            r == CreateFiles(ClockFiles(c), 2, failAt, {})
            dir == ClkDir(nm.dname, c, r.files)
            did == [Done("add") EXCEPT !.clk = c,
                        !.uaf = ~parent.alive, !.uninit = nm.uninit,
                        !.oob = nm.oob, !.dname = nm.dname]
        IN  IF u = "oops"
            THEN /\ oops' = TRUE
                 /\ last' = [did EXCEPT !.returned = FALSE]
                 /\ UNCHANGED fs
            ELSE /\ oops' = oops
                 /\ fs' = IF nodir THEN fs
                          ELSE IF r.failed = 0
                          THEN Link(fs, parent.gen, dir)
                          ELSE AddCleanup(Link(fs, parent.gen, dir),
                                          parent.gen, dir)
                 /\ last' = [did EXCEPT
                        !.failed = IF nodir THEN 1 ELSE r.failed,
                        !.ret = IF nodir \/ r.failed # 0 THEN -ENOMEM ELSE 0]
    /\ UNCHANGED <<debugfs_base, debug_suspend, clocks_ptr, ninit, init_ret, pc>>

\* ------------------------------------------------------ the file handlers
\* clock c has a file of this name
HasFile(c, name) ==
    \E r \in fs : \E d \in r.dirs : d.data = c /\ name \in d.files

\* what the clock framework may return
DriverRets == {-ENOMEM, 0}
Vals == 0..MaxVal

\* RateSetCalls with the three setters chained by else
RateSetCalls_chained(c, val, rmax, r) ==
    IF "CLK_MAX" \in clk_flags(c)
    THEN <<Call("clk_set_max_rate", c, val, rmax)>>
    ELSE IF "CLK_MIN" \in clk_flags(c)
    THEN <<Call("clk_set_min_rate", c, val, r)>>
    ELSE <<Call("clk_set_rate", c, val, r)>>

\* lines 32 to 37: the calls a write of val to rate makes
RateSetCalls(c, val, rmax, r) ==
    (IF "CLK_MAX" \in clk_flags(c)
     THEN <<Call("clk_set_max_rate", c, val, rmax)>> ELSE <<>>)
    \o (IF "CLK_MIN" \in clk_flags(c)
        THEN <<Call("clk_set_min_rate", c, val, r)>>
        ELSE <<Call("clk_set_rate", c, val, r)>>)

\* line 41: the value a write to rate returns
RateSetRet(calls) == calls[Len(calls)].ret

clock_debug_rate_set(c, val, rmax, r) ==
    /\ Live
    /\ HasFile(c, N_rate)
    /\ LET calls == RateSetCalls(c, val, rmax, r)
           ret == RateSetRet(calls)
       IN last' = [Done("rate_set") EXCEPT !.clk = c, !.val = val,
                      !.calls = calls, !.ret = ret,
                      !.out = IF ret # 0
                              THEN <<Line("clk_set_rate failed", <<>>, ret)>>
                              ELSE <<>>]
    /\ UNCHANGED <<fs, debugfs_base, debug_suspend, clocks_ptr, ninit, nadd,
                   init_ret, pc, oops>>

\* lines 69 to 72
EnableSetCalls(c, val, rc) ==
    IF val # 0 THEN <<Call("enable", c, 0, rc)>>
    ELSE <<Call("disable", c, 0, 0)>>

\* EnableSetRet without the initialisation of rc
EnableSetRet_rc(val, rc) == rc

\* lines 67 to 74
EnableSetRet(val, rc) == IF val # 0 THEN rc ELSE 0

clock_debug_enable_set(c, val, rc) ==
    /\ Live
    /\ HasFile(c, N_enable)
    /\ last' = [Done("enable_set") EXCEPT !.clk = c, !.val = val,
                   !.calls = EnableSetCalls(c, val, rc),
                   !.ret = EnableSetRet(val, rc)]
    /\ UNCHANGED <<fs, debugfs_base, debug_suspend, clocks_ptr, ninit, nadd,
                   init_ret, pc, oops>>

\* line 81
EnableGetCalls(c, e) == <<Call("is_enabled", c, 0, e)>>

clock_debug_enable_get(c, e) ==
    /\ Live
    /\ HasFile(c, N_enable)
    /\ last' = [Done("enable_get") EXCEPT !.clk = c,
                   !.calls = EnableGetCalls(c, e), !.val = e]
    /\ UNCHANGED <<fs, debugfs_base, debug_suspend, clocks_ptr, ninit, nadd,
                   init_ret, pc, oops>>

\* the rate tables a driver may have: a negative entry ends the table
RateTables ==
    {f \in [0..MaxRates -> -1..1] : \E i \in 0..MaxRates : f[i] < 0}

\* ListRatesLoop with the test rate > 0
RECURSIVE ListRatesLoop_gt(_, _, _, _, _)
ListRatesLoop_gt(c, f, i, calls, out) ==
    LET rate == f[i]
        made == Append(calls, Call("list_rate", c, i, rate))
    IN  IF rate > 0
        THEN ListRatesLoop_gt(c, f, i + 1, made,
                              Append(out, Line("rate", <<>>, rate)))
        ELSE [calls |-> made, out |-> out]

\* while ((rate = clock->ops->list_rate(clock->id, i++)) >= 0)
\*         seq_printf(m, "%d\n", rate);
RECURSIVE ListRatesLoop(_, _, _, _, _)
ListRatesLoop(c, f, i, calls, out) ==
    LET rate == f[i]
        made == Append(calls, Call("list_rate", c, i, rate))
    IN  IF rate >= 0
        THEN ListRatesLoop(c, f, i + 1, made, Append(out, Line("rate", <<>>, rate)))
        ELSE [calls |-> made, out |-> out]

list_rates_show(c, f) ==
    /\ Live
    /\ HasFile(c, N_list_rates)
    /\ LET r == ListRatesLoop(c, f, 0, <<>>, <<>>) IN
       last' = [Done("list_rates") EXCEPT !.clk = c, !.tbl = f,
                   !.calls = r.calls, !.out = r.out]
    /\ UNCHANGED <<fs, debugfs_base, debug_suspend, clocks_ptr, ninit, nadd,
                   init_ret, pc, oops>>

\* ------------------------------------------------------- debug_suspend
\* a write to <root>/debug_suspend stores the value (values stay far below
\* 2^32, so the u32 holds them unchanged)
debug_suspend_write(v) ==
    /\ ~oops
    /\ \E r \in fs : r.alive /\ r.suspend
    /\ debug_suspend' = v
    /\ last' = [Done("suspend_write") EXCEPT !.val = v]
    /\ UNCHANGED <<fs, debugfs_base, clocks_ptr, ninit, nadd, init_ret, pc, oops>>

\* PrintLoop with the test is_enabled(id) == 1
RECURSIVE PrintLoop_one(_, _, _, _, _, _)
PrintLoop_one(list, e, i, calls, out, cnt) ==
    IF i > Len(list) THEN [calls |-> calls, out |-> out, cnt |-> cnt]
    ELSE LET made == Append(calls, Call("is_enabled", list[i], 0, e[i])) IN
         IF e[i] = 1
         THEN PrintLoop_one(list, e, i + 1, made,
                        Append(out, Line("name", clk_dbg_name(list[i]), 0)),
                        cnt + 1)
         ELSE PrintLoop_one(list, e, i + 1, made, out, cnt)

\* list_for_each_entry(clk, clocks_ptr, list) { ... }: e[i] is what
\* is_enabled returns for the i-th clock of the list
RECURSIVE PrintLoop(_, _, _, _, _, _)
PrintLoop(list, e, i, calls, out, cnt) ==
    IF i > Len(list) THEN [calls |-> calls, out |-> out, cnt |-> cnt]
    ELSE LET made == Append(calls, Call("is_enabled", list[i], 0, e[i])) IN
         IF e[i] # 0
         THEN PrintLoop(list, e, i + 1, made,
                        Append(out, Line("name", clk_dbg_name(list[i]), 0)),
                        cnt + 1)
         ELSE PrintLoop(list, e, i + 1, made, out, cnt)

\* lines 135 to 138
PrintCount(cnt) ==
    IF cnt # 0 THEN Line("Enabled clock count", <<>>, cnt)
    ELSE Line("No clocks enabled.", <<>>, 0)

\* what is_enabled may return for the clocks of a list
EnabledResults(list) == [1..Len(list) -> Vals]

clock_debug_print_enabled ==
    /\ ~oops
    /\ IF debug_suspend = 0
       THEN /\ last' = Done("print_enabled")
            /\ oops' = oops
       ELSE IF clocks_ptr = NULL
       THEN /\ last' = [Done("print_enabled") EXCEPT !.returned = FALSE,
                           !.out = <<Line("Enabled clocks:", <<>>, 0)>>]
            /\ oops' = TRUE
       ELSE \E e \in EnabledResults(Deref(clocks_ptr)) :
            LET r == PrintLoop(Deref(clocks_ptr), e, 1, <<>>,
                               <<Line("Enabled clocks:", <<>>, 0)>>, 0)
            IN  /\ last' = [Done("print_enabled") EXCEPT
                               !.head = Deref(clocks_ptr),
                               !.calls = r.calls,
                               !.out = Append(r.out, PrintCount(r.cnt)),
                               !.val = r.cnt]
                /\ oops' = oops
    /\ UNCHANGED <<fs, debugfs_base, debug_suspend, clocks_ptr, ninit, nadd,
                   init_ret, pc>>

\* ---------------------------------------------------------- specifications
\* registration: every allocation may fail, the stack holds anything
Next ==
    \/ \E failAt \in InitFailPoints : clock_debug_init(AllClocks, failAt)
    \/ \E c \in ClockIds, g \in Garbage :
        \E failAt \in FailPoints(c) : clock_debug_add(c, failAt, g)

Spec == Init /\ [][Next]_vars

\* the files of the registered clocks in use; in the registration only the
\* creation of a clock directory may fail, and the stack holds zero bytes
NextFiles ==
    \/ clock_debug_init(<<>>, 0)
    \/ \E c \in ClockIds, failAt \in 0..1 :
            clock_debug_add(c, failAt, NoGarbage)
    \/ \E c \in ClockIds, val \in Vals, rmax, r \in DriverRets :
            clock_debug_rate_set(c, val, rmax, r)
    \/ \E c \in ClockIds, val \in Vals, rc \in DriverRets :
            clock_debug_enable_set(c, val, rc)
    \/ \E c \in ClockIds, e \in Vals : clock_debug_enable_get(c, e)
    \/ \E c \in ClockIds, f \in RateTables : list_rates_show(c, f)

SpecFiles == Init /\ [][NextFiles]_vars

\* suspend logging, every call run without interruption
NextSuspend ==
    \/ \E head \in ClockLists, failAt \in InitFailPoints :
            clock_debug_init(head, failAt)
    \/ \E v \in Vals : debug_suspend_write(v)
    \/ clock_debug_print_enabled

SpecSuspend == Init /\ [][NextSuspend]_vars

\* suspend logging while clock_debug_init runs
NextRace ==
    \/ \E head \in ClockLists, failAt \in InitFailPoints :
            init_L107(head, failAt)
    \/ init_L110
    \/ init_L115
    \/ \E v \in Vals : debug_suspend_write(v)
    \/ clock_debug_print_enabled

SpecRace == Init /\ [][NextRace]_vars

\* ----------------------------------------------------------------- claims
Setters == {"clk_set_min_rate", "clk_set_rate"}

\* C1: a write of v to rate calls set_max_rate(clock, v) iff CLK_MAX is set,
\* then exactly one of set_min_rate (CLK_MIN set) and set_rate (otherwise),
\* and returns the return code of that call, never that of set_max_rate
C1_RateSetSelectsSetter ==
    last.op = "rate_set" =>
        LET calls == last.calls
            fl == clk_flags(last.clk)
            n == Len(calls)
        IN  /\ n = IF "CLK_MAX" \in fl THEN 2 ELSE 1
            /\ \A k \in 1..n : calls[k].clk = last.clk /\ calls[k].arg = last.val
            /\ \A k \in 1..n : (calls[k].fn = "clk_set_max_rate") <=>
                                    ("CLK_MAX" \in fl /\ k = 1)
            /\ Cardinality({k \in 1..n : calls[k].fn \in Setters}) = 1
            /\ calls[n].fn =
                  (IF "CLK_MIN" \in fl THEN "clk_set_min_rate" ELSE "clk_set_rate")
            /\ last.ret = calls[n].ret

\* a write to the rate file of a CLK_MIN|CLK_MAX clock, the two setters
\* returning different codes
C1_Witness ==
    /\ last.op = "rate_set"
    /\ clk_flags(last.clk) = {"CLK_MIN", "CLK_MAX"}
    /\ Len(last.calls) = 2
    /\ last.calls[1].ret # last.calls[2].ret

\* C2: a write of v to enable calls enable(id) once and never disable for
\* v # 0, returning enable's code, and disable(id) once and never enable for
\* v = 0, returning 0; a read calls is_enabled(id) only and yields its result
C2_EnableSetGet ==
    /\ last.op = "enable_set" /\ last.val # 0 =>
          /\ Len(last.calls) = 1
          /\ last.calls[1].fn = "enable"
          /\ last.calls[1].clk = last.clk
          /\ last.ret = last.calls[1].ret
    /\ last.op = "enable_set" /\ last.val = 0 =>
          /\ Len(last.calls) = 1
          /\ last.calls[1].fn = "disable"
          /\ last.calls[1].clk = last.clk
          /\ last.ret = 0
    /\ last.op = "enable_get" =>
          /\ Len(last.calls) = 1
          /\ last.calls[1].fn = "is_enabled"
          /\ last.calls[1].clk = last.clk
          /\ last.val = last.calls[1].ret
          /\ last.ret = 0

\* a write of a value above 1 whose enable call failed
C2_Witness ==
    /\ last.op = "enable_set"
    /\ last.val > 1
    /\ last.ret = -ENOMEM

\* the first index at which the rate table is negative
Sentinel(tbl) == CHOOSE k \in 0..MaxRates :
                    tbl[k] < 0 /\ \A j \in 0..(k - 1) : tbl[j] >= 0

\* C3: a read of list_rates calls list_rate(id, i) for i = 0, 1, ..., k where
\* k is the first index with a negative result, makes no further call, and
\* outputs list_rate(id, 0) .. list_rate(id, k-1) in that order
C3_ListRatesEnumerates ==
    last.op = "list_rates" =>
        LET k == Sentinel(last.tbl) IN
        /\ Len(last.calls) = k + 1
        /\ \A j \in 1..(k + 1) :
              last.calls[j] = Call("list_rate", last.clk, j - 1, last.tbl[j - 1])
        /\ Len(last.out) = k
        /\ \A j \in 1..k : last.out[j] = Line("rate", <<>>, last.tbl[j - 1])

\* a table with a zero rate, then the sentinel, then a rate behind it
C3_Witness ==
    /\ last.op = "list_rates"
    /\ last.tbl[0] = 0
    /\ last.tbl[1] < 0
    /\ last.tbl[MaxRates] >= 0

\* the directories of the given name below debugfs_base
LastDirs ==
    {d \in Target(fs, Deref(debugfs_base)).dirs : d.name = last.dname}

\* the file names a clock directory is to hold
Expected(c) ==
    {N_rate, N_enable, N_is_local}
    \cup (IF clk_ops(c).measure_rate THEN {N_measure} ELSE {})
    \cup (IF clk_ops(c).list_rate THEN {N_list_rates} ELSE {})

\* C4: after clock_debug_add returns 0 the clock's directory holds rate,
\* enable, is_local, measure iff measure_rate is implemented, list_rates iff
\* list_rate is implemented, and nothing else
C4_AddCreatesFiles ==
    last.op = "add" /\ last.returned /\ last.ret = 0 =>
        LastDirs = {ClkDir(last.dname, last.clk, Expected(last.clk))}

\* a clock with measure_rate and without list_rate was registered
C4_Witness ==
    /\ last.op = "add" /\ last.returned /\ last.ret = 0
    /\ clk_ops(last.clk).measure_rate
    /\ ~clk_ops(last.clk).list_rate
    /\ \E d \in LastDirs : Cardinality(d.files) = 4

\* C5: a clock_debug_add that fails at any step returns -ENOMEM and leaves
\* debugfs as it was before the call: nothing of the clock remains, earlier
\* clocks, the root directory and debug_suspend are unchanged
C5_AddFailureCleansUp ==
    last.op = "add" /\ last.returned =>
        /\ last.ret \in {0, -ENOMEM}
        /\ last.failed # 0 => last.ret = -ENOMEM
        /\ last.ret = -ENOMEM => fs = last.fs0

\* the creation of the third file failed while another clock was registered
C5_Witness ==
    /\ last.op = "add" /\ last.returned /\ last.ret = -ENOMEM
    /\ last.failed = 4
    /\ ~last.uaf
    /\ \E d \in ClockDirs : d.data # last.clk

\* C6: clock_debug_init returns -ENOMEM when the creation of the root
\* directory or of debug_suspend fails, nothing it created remains then, and
\* it returns 0 only when the root directory and debug_suspend both exist
C6_InitFailure ==
    last.op = "init" /\ last.returned =>
        /\ last.ret \in {0, -ENOMEM}
        /\ last.failed # 0 => last.ret = -ENOMEM
        /\ last.ret = -ENOMEM => fs = last.fs0
        /\ last.ret = 0 =>
              /\ debugfs_base # NULL
              /\ \E r \in fs : /\ r.gen = Deref(debugfs_base)
                               /\ r.name = N_clk
                               /\ r.alive
                               /\ r.suspend

\* the root directory was created and debug_suspend was not
C6_Witness ==
    /\ last.op = "init" /\ last.returned /\ last.ret = -ENOMEM
    /\ last.failed = 2
    /\ debugfs_base # NULL

\* C7: clock_debug_print_enabled logs nothing and asks no clock when
\* debug_suspend is 0; otherwise it calls is_enabled once per clock of the
\* list, in list order, logs the names of the clocks that answered nonzero
\* and then their number, or "No clocks enabled." when there is none
C7_PrintEnabled ==
    last.op = "print_enabled" /\ last.returned =>
        IF debug_suspend = 0
        THEN last.calls = <<>> /\ last.out = <<>>
        ELSE LET list == Deref(clocks_ptr)
                 en == SelectSeq(last.calls, LAMBDA x : x.ret # 0)
                 names == [i \in 1..Len(en) |->
                              Line("name", clk_dbg_name(en[i].clk), 0)]
             IN  /\ Len(last.calls) = Len(list)
                 /\ \A i \in 1..Len(list) :
                       /\ last.calls[i].fn = "is_enabled"
                       /\ last.calls[i].clk = list[i]
                 /\ last.out =
                       <<Line("Enabled clocks:", <<>>, 0)>> \o names \o
                       <<IF Len(en) = 0 THEN Line("No clocks enabled.", <<>>, 0)
                         ELSE Line("Enabled clock count", <<>>, Len(en))>>

\* a list of two clocks, the first off, the second on with is_enabled = 2
C7_Witness ==
    /\ last.op = "print_enabled" /\ last.returned
    /\ debug_suspend # 0
    /\ Len(last.calls) = 2
    /\ last.calls[1].ret = 0
    /\ last.calls[2].ret = 2
    /\ Len(last.out) = 3

\* the clock's name cut to 49 characters, every character lowercased
LoweredName(c) ==
    LET name == clk_dbg_name(c)
        n == IF Len(name) < TempSize - 1 THEN Len(name) ELSE TempSize - 1
    IN  [j \in 1..n |-> tolower(name[j])]

\* C8: for every clock name the directory name is the name cut to 49
\* characters and lowercased, and computing it touches nothing outside
\* temp[] and reads no byte of it that was never written
C8_DirNameWellDefined ==
    last.op = "add" /\ last.dname # <<>> =>
        /\ last.dname = LoweredName(last.clk)
        /\ ~last.oob
        /\ ~last.uninit

\* C9: when clock_debug_init has not been called or its most recent call
\* returned -ENOMEM, clock_debug_add returns -ENOMEM, creates nothing and
\* never uses a removed root directory
C9_AddNeedsRoot ==
    last.op = "add" /\ init_ret # <<0>> =>
        /\ last.returned
        /\ last.ret = -ENOMEM
        /\ fs = last.fs0
        /\ ~last.uaf

\* C10: in every state debug_suspend # 0 implies that clocks_ptr has been set
C10_SuspendImpliesClocksPtr ==
    debug_suspend # 0 => clocks_ptr # NULL

====
